---- MODULE Spec2Model ----
(***************************************************************************)
(* Model of system-app-check/app_health_checker.py: the                    *)
(* ApplicationHealthChecker class (load_config, check_application,         *)
(* check_multiple_applications, generate_report, send_alert, save_results) *)
(* and the main() driver, as a state machine over one process run.         *)
(*                                                                         *)
(* Text (response bodies, keywords) is a sequence of one-character         *)
(* strings so that str.lower() and the `in` substring test are computed.   *)
(* A Python value that may be None is None == <<>> or Some(v) == <<v>>.    *)
(* The 'timestamp' field of a result (datetime.now()) is not modelled.     *)
(***************************************************************************)
EXTENDS Integers, Sequences, FiniteSets, TLC

VARIABLES
    pc,            \* position of main(): "load_targets", "check", "save",
                   \* "alert", "exit", "done"; in SpecApi the last method
                   \* called on the checker
    args,          \* parsed command line (argparse namespace)
    config,        \* checker.config
    applications,  \* main's local `applications`
    results,       \* checker.results
    idx,           \* 1-based position of `for app in applications`
    inCall,        \* TRUE while check_application is executing for applications[idx]
    attempt,       \* loop variable of `for attempt in range(retry_attempts)`
    returned,      \* per target: what its check_application call returned
    log,           \* per target: the requests and sleeps of its call, in order
    report,        \* what generate_report computed, None before it ran
    saved,         \* content written by save_results, None when not written
    alertCalls,    \* number of send_alert invocations
    smtpSends,     \* number of messages handed to smtplib
    mailed,        \* number of messages SMTP accepted
    raised,        \* uncaught exception that ended the process, or "none"
    exitCode       \* process exit status, None while running

vars == <<pc, args, config, applications, results, idx, inCall, attempt,
          returned, log, report, saved, alertCalls, smtpSends, mailed,
          raised, exitCode>>

----------------------------------------------------------------------------
(* Bounds of the exploration *)

MaxTargets == 2     \* longest target list read from a --file
MaxRetry == 2       \* largest retry_attempts a config file overrides with
MaxResults == 2     \* SpecApi: results a checker accumulates before calls stop
MaxAlertCalls == 1  \* SpecApi: send_alert calls made on one checker

----------------------------------------------------------------------------
(* Python values *)

None == <<>>
Some(v) == <<v>>

\* dict.update(other): keys of `u` replace or extend those of `d`
DictUpdate(d, u) ==
    [k \in (DOMAIN d) \cup (DOMAIN u) |-> IF k \in DOMAIN u THEN u[k] ELSE d[k]]

\* `x in lst` for a list
InList(x, lst) == \E i \in 1..Len(lst) : lst[i] = x

----------------------------------------------------------------------------
(* Text *)

Uppers == <<"A","B","C","D","E","F","G","H","I","J","K","L","M",
            "N","O","P","Q","R","S","T","U","V","W","X","Y","Z">>
Lowers == <<"a","b","c","d","e","f","g","h","i","j","k","l","m",
            "n","o","p","q","r","s","t","u","v","w","x","y","z">>

LowerChar(c) ==
    IF \E i \in 1..Len(Uppers) : Uppers[i] = c
    THEN Lowers[CHOOSE i \in 1..Len(Uppers) : Uppers[i] = c]
    ELSE c

\* str.lower()
Lower(s) == [i \in 1..Len(s) |-> LowerChar(s[i])]

UpperChar(c) ==
    IF \E i \in 1..Len(Lowers) : Lowers[i] = c
    THEN Uppers[CHOOSE i \in 1..Len(Lowers) : Lowers[i] = c]
    ELSE c

\* str.upper()
Upper(s) == [i \in 1..Len(s) |-> UpperChar(s[i])]

\* `kw in s` for strings: kw occurs as a contiguous substring of s
Contains(kw, s) ==
    \E i \in 0..(Len(s) - Len(kw)) : SubSeq(s, i + 1, i + Len(kw)) = kw

\* any(keyword in content for keyword in keywords)
AnyKeywordIn(keywords, content) ==
    \E k \in 1..Len(keywords) : Contains(keywords[k], content)

----------------------------------------------------------------------------
(* load_config *)

DefaultRetryAttempts == 3

default_config ==
    [ timeout |-> 10,
      retry_attempts |-> DefaultRetryAttempts,
      retry_delay |-> 2,
      expected_status_codes |-> <<200, 201, 202, 204>>,
      critical_keywords |-> << <<"e","r","r","o","r">>,
                               <<"e","x","c","e","p","t","i","o","n">>,
                               <<"d","o","w","n">>,
                               <<"m","a","i","n","t","e","n","a","n","c","e">> >>,
      success_keywords |-> << <<"s","u","c","c","e","s","s">>,
                              <<"o","k">>,
                              <<"r","u","n","n","i","n","g">>,
                              <<"h","e","a","l","t","h","y">> >>,
      alert_email |-> None,
      smtp_server |-> "localhost",
      smtp_port |-> 587 ]

\* A file on disk as open()/json.load() see it
MissingFile == [kind |-> "missing"]
InvalidJson == [kind |-> "invalid"]
JsonFile(v) == [kind |-> "ok", json |-> v]

\* variant: the update runs the wrong way round, the defaults win
load_configDefaultsWin(config_file) ==
    IF config_file = None THEN default_config
    ELSE IF config_file[1].kind = "ok"
         THEN DictUpdate(config_file[1].json, default_config)
         ELSE default_config

\* load_config(config_file): config_file is None or Some(file)
load_config(config_file) ==
    IF config_file = None THEN default_config
    ELSE IF config_file[1].kind = "ok"
         THEN DictUpdate(default_config, config_file[1].json)
         ELSE default_config

----------------------------------------------------------------------------
(* Inputs: command line, files, targets, and what the network answers *)

\* user_config objects a --config file may hold
RetryOverrides == { [retry_attempts |-> n] : n \in (-1)..MaxRetry }
KeywordOverride == [critical_keywords |-> << <<"E","r","r","o","r">> >>]
AlertOverride == [alert_email |-> Some("ops@example.com"), retry_attempts |-> 1]

UserConfigs == { <<>>, KeywordOverride, AlertOverride } \cup RetryOverrides

ConfigFileChoices ==
    {None, Some(MissingFile), Some(InvalidJson)}
    \cup { Some(JsonFile(u)) : u \in UserConfigs }

\* keyword arguments of check_application as a target-list file spells them
TargetChoices ==
    { [url |-> "http://a.test/health"],
      [url |-> "http://b.test/api", name |-> "B", method |-> <<"p","o","s","t">>,
       data |-> "ping"] }

TargetLists ==
    UNION { [1..n -> TargetChoices] : n \in 0..MaxTargets }

TargetFileChoices ==
    {Some(MissingFile), Some(InvalidJson)}
    \cup { Some(JsonFile(l)) : l \in TargetLists }

\* (args.url, args.file): a single URL, a file, both, or neither
SingleUrl == [url |-> Some("http://one.test"), file |-> None]
BuiltInList == [url |-> None, file |-> None]
UrlAndFile == [url |-> Some("http://one.test"), file |-> Some(MissingFile)]

SourceChoices ==
    { SingleUrl, BuiltInList, UrlAndFile }
    \cup { [url |-> None, file |-> f] : f \in TargetFileChoices }

Args(c, s, sv, e) ==
    [config |-> c, url |-> s.url, file |-> s.file, save |-> sv, email |-> e]

\* the command lines explored: every config file with a single URL; every
\* --save/--email combination with and without alert_email configured; every
\* target source with the configurations that change how targets are checked
ArgChoices ==
    { Args(c, SingleUrl, None, FALSE) : c \in ConfigFileChoices }
    \cup { Args(c, s, sv, e) :
             c \in {None, Some(JsonFile(AlertOverride))},
             s \in {SingleUrl, BuiltInList},
             sv \in {None, Some("out.json")}, e \in BOOLEAN }
    \cup { Args(c, s, None, FALSE) :
             c \in {None, Some(JsonFile(KeywordOverride))}
                   \cup { Some(JsonFile(u)) : u \in RetryOverrides },
             s \in SourceChoices }

\* responses a request may receive: status code, body text, elapsed milliseconds
Responses ==
    { [status_code |-> 200, text |-> <<"O","K">>, ms |-> 12],
      [status_code |-> 200, text |-> <<"i","d","l","e">>, ms |-> 0],
      [status_code |-> 200, text |-> <<"E","r","r","o","r">>, ms |-> 12],
      [status_code |-> 503, text |-> <<"O","K">>, ms |-> 7] }

\* str(e) of the RequestException a request may raise
RequestErrors == {"timed out", "connection refused"}

----------------------------------------------------------------------------
(* main, up to the health checks *)

\* the built-in list of main()
DefaultApplications ==
    << [url |-> "http://localhost:30007", name |-> "WiseCow App"],
       [url |-> "https://httpbin.org/status/200", name |-> "HTTPBin Test"],
       [url |-> "https://google.com", name |-> "Google"] >>

\* checker = ApplicationHealthChecker(args.config) has run
Init ==
    /\ args \in ArgChoices
    /\ config = load_config(args.config)
    /\ results = <<>>
    /\ pc = "load_targets"
    /\ applications = <<>>
    /\ idx = 1
    /\ inCall = FALSE
    /\ attempt = 0
    /\ returned = <<>>
    /\ log = <<>>
    /\ report = None
    /\ saved = None
    /\ alertCalls = 0
    /\ smtpSends = 0
    /\ mailed = 0
    /\ raised = "none"
    /\ exitCode = None

\* variant: an unreadable --file falls back to the built-in list
LoadedApplicationsFallback(a) ==
    IF a.url # None THEN Some(<< [url |-> a.url[1]] >>)
    ELSE IF a.file # None /\ a.file[1].kind = "ok"
         THEN Some(a.file[1].json)
         ELSE Some(DefaultApplications)

\* the target list main() builds, or None when the --file cannot be loaded
LoadedApplications(a) ==
    IF a.url # None THEN Some(<< [url |-> a.url[1]] >>)
    ELSE IF a.file # None
         THEN IF a.file[1].kind = "ok" THEN Some(a.file[1].json) ELSE None
         ELSE Some(DefaultApplications)

LoadTargets ==
    /\ pc = "load_targets"
    /\ LET loaded == LoadedApplications(args) IN
        IF loaded = None
        THEN /\ pc' = "done"
             /\ exitCode' = Some(1)
             /\ UNCHANGED <<applications, log>>
        ELSE /\ pc' = "check"
             /\ applications' = loaded[1]
             /\ log' = [i \in 1..Len(loaded[1]) |-> <<>>]
             /\ UNCHANGED exitCode
    /\ UNCHANGED <<args, config, results, idx, inCall, attempt, returned,
                   report, saved, alertCalls, smtpSends, mailed, raised>>

----------------------------------------------------------------------------
(* check_application *)

\* a keyword argument of the call check_application(**app), or its default
Param(app, k, default) == IF k \in DOMAIN app THEN app[k] ELSE default

\* `if name is None: name = url`
NameOf(app) == Param(app, "name", app.url)

\* which requests primitive the method string selects, and whether `data` is sent
RequestCall(app) ==
    LET method == Param(app, "method", <<"G","E","T">>) IN
    IF Upper(method) = <<"G","E","T">>
    THEN [fn |-> "get", url |-> app.url, data |-> None]
    ELSE IF Upper(method) = <<"P","O","S","T">>
         THEN [fn |-> "post", url |-> app.url,
               data |-> Param(app, "data", None)]
         ELSE [fn |-> "request", verb |-> method, url |-> app.url,
               data |-> Param(app, "data", None)]

\* variant: the decision looks at the status code only
ClassifyStatusOnly(status_ok, has_critical_keyword, has_success_keyword) ==
    IF status_ok THEN "UP" ELSE "DOWN"

\* variant: a response without a success keyword is demoted to DOWN
ClassifyNeedsSuccess(status_ok, has_critical_keyword, has_success_keyword) ==
    IF status_ok /\ ~has_critical_keyword
    THEN IF has_success_keyword THEN "UP" ELSE "DOWN"
    ELSE "DOWN"

\* the UP/DOWN decision of lines 91-100
Classify(status_ok, has_critical_keyword, has_success_keyword) ==
    IF status_ok /\ ~has_critical_keyword
    THEN IF has_success_keyword THEN "UP" ELSE "UP"
    ELSE "DOWN"

\* the result built from a received response
ResponseResult(cfg, app, status_code, text, response_time) ==
    LET status_ok == InList(status_code, cfg.expected_status_codes)
        content == Lower(text)
        has_critical_keyword == AnyKeywordIn(cfg.critical_keywords, content)
        has_success_keyword == AnyKeywordIn(cfg.success_keywords, content)
    IN  [ name |-> NameOf(app),
          url |-> app.url,
          status |-> Classify(status_ok, has_critical_keyword, has_success_keyword),
          status_code |-> Some(status_code),
          response_time_ms |-> Some(response_time),
          content_analysis |->
              [ has_critical_keywords |-> has_critical_keyword,
                has_success_keywords |-> has_success_keyword ] ]

\* variant: the failure result also carries a content analysis
ErrorResultWithAnalysis(app, e) ==
    [ name |-> NameOf(app),
      url |-> app.url,
      status |-> "DOWN",
      status_code |-> None,
      response_time_ms |-> None,
      content_analysis |-> [ has_critical_keywords |-> FALSE,
                             has_success_keywords |-> FALSE ],
      error |-> e ]

\* the result built when the last attempt raised RequestException e
ErrorResult(app, e) ==
    [ name |-> NameOf(app),
      url |-> app.url,
      status |-> "DOWN",
      status_code |-> None,
      response_time_ms |-> None,
      error |-> e ]

\* variant: gives up one attempt early
WillRetryOneLess(att, cfg) == att < cfg.retry_attempts - 2

\* `attempt < retry_attempts - 1`: another attempt follows this failed one
WillRetry(att, cfg) == att < cfg.retry_attempts - 1

\* log entries: a request with how it ended, and a time.sleep
ResponseEvent(app, response) ==
    [ev |-> "request", call |-> RequestCall(app), outcome |-> "response",
     response |-> response]

FailureEvent(app) ==
    [ev |-> "request", call |-> RequestCall(app), outcome |-> "failure"]

SleepEvent(cfg) == [ev |-> "sleep", secs |-> cfg.retry_delay]

\* `for app in applications: self.check_application(**app)` enters the call
BeginCheck ==
    /\ pc = "check"
    /\ ~inCall
    /\ idx <= Len(applications)
    /\ inCall' = TRUE
    /\ attempt' = 0
    /\ UNCHANGED <<pc, args, config, applications, results, idx, returned, log,
                   report, saved, alertCalls, smtpSends, mailed, raised, exitCode>>

\* variant: a response classified DOWN is retried like a transport failure
AttemptResponseRetryDown ==
    /\ pc = "check"
    /\ inCall
    /\ attempt < config.retry_attempts
    /\ \E response \in Responses :
        LET app == applications[idx]
            result == ResponseResult(config, app, response.status_code,
                                     response.text, response.ms)
        IN  IF result.status = "DOWN" /\ WillRetry(attempt, config)
            THEN /\ log' = [log EXCEPT ![idx] =
                              @ \o <<ResponseEvent(app, response), SleepEvent(config)>>]
                 /\ attempt' = attempt + 1
                 /\ UNCHANGED <<results, returned, inCall, idx>>
            ELSE /\ log' = [log EXCEPT ![idx] = Append(@, ResponseEvent(app, response))]
                 /\ results' = Append(results, result)
                 /\ returned' = Append(returned, Some(result))
                 /\ inCall' = FALSE
                 /\ idx' = idx + 1
                 /\ UNCHANGED attempt
    /\ UNCHANGED <<pc, args, config, applications, report, saved,
                   alertCalls, smtpSends, mailed, raised, exitCode>>

\* one loop iteration in which the request gets a response
AttemptResponse ==
    /\ pc = "check"
    /\ inCall
    /\ attempt < config.retry_attempts
    /\ \E response \in Responses :
        LET app == applications[idx]
            result == ResponseResult(config, app, response.status_code,
                                     response.text, response.ms)
        IN  /\ log' = [log EXCEPT ![idx] = Append(@, ResponseEvent(app, response))]
            /\ results' = Append(results, result)
            /\ returned' = Append(returned, Some(result))
    /\ inCall' = FALSE
    /\ idx' = idx + 1
    /\ UNCHANGED <<pc, args, config, applications, attempt, report, saved,
                   alertCalls, smtpSends, mailed, raised, exitCode>>

\* variant: the exception of the last attempt is raised again
AttemptFailureReraise ==
    /\ pc = "check"
    /\ inCall
    /\ attempt < config.retry_attempts
    /\ LET app == applications[idx] IN
        IF WillRetry(attempt, config)
        THEN /\ log' = [log EXCEPT ![idx] =
                          @ \o <<FailureEvent(app), SleepEvent(config)>>]
             /\ attempt' = attempt + 1
             /\ UNCHANGED <<pc, inCall, raised, exitCode>>
        ELSE /\ log' = [log EXCEPT ![idx] = Append(@, FailureEvent(app))]
             /\ raised' = "RequestException"
             /\ exitCode' = Some(1)
             /\ pc' = "done"
             /\ inCall' = FALSE
             /\ UNCHANGED attempt
    /\ UNCHANGED <<args, config, applications, results, returned, idx, report,
                   saved, alertCalls, smtpSends, mailed>>

\* one loop iteration in which the request raises RequestException
AttemptFailure ==
    /\ pc = "check"
    /\ inCall
    /\ attempt < config.retry_attempts
    /\ \E e \in RequestErrors :
        LET app == applications[idx] IN
        IF WillRetry(attempt, config)
        THEN /\ log' = [log EXCEPT ![idx] =
                          @ \o <<FailureEvent(app), SleepEvent(config)>>]
             /\ attempt' = attempt + 1
             /\ UNCHANGED <<results, returned, inCall, idx>>
        ELSE /\ log' = [log EXCEPT ![idx] = Append(@, FailureEvent(app))]
             /\ results' = Append(results, ErrorResult(app, e))
             /\ returned' = Append(returned, Some(ErrorResult(app, e)))
             /\ inCall' = FALSE
             /\ idx' = idx + 1
             /\ UNCHANGED attempt
    /\ UNCHANGED <<pc, args, config, applications, report, saved,
                   alertCalls, smtpSends, mailed, raised, exitCode>>

\* variant: a call that made no attempt records the target as DOWN
ReturnDownWithoutAttempt ==
    /\ pc = "check"
    /\ inCall
    /\ attempt >= config.retry_attempts
    /\ LET result == ErrorResult(applications[idx], "no attempt") IN
         /\ results' = Append(results, result)
         /\ returned' = Append(returned, Some(result))
    /\ inCall' = FALSE
    /\ idx' = idx + 1
    /\ UNCHANGED <<pc, args, config, applications, attempt, log,
                   report, saved, alertCalls, smtpSends, mailed, raised, exitCode>>

\* range(retry_attempts) is exhausted without a return: the call returns None
ReturnNone ==
    /\ pc = "check"
    /\ inCall
    /\ attempt >= config.retry_attempts
    /\ returned' = Append(returned, None)
    /\ inCall' = FALSE
    /\ idx' = idx + 1
    /\ UNCHANGED <<pc, args, config, applications, results, attempt, log,
                   report, saved, alertCalls, smtpSends, mailed, raised, exitCode>>

----------------------------------------------------------------------------
(* generate_report *)

IsUp(r) == r.status = "UP"
IsDown(r) == r.status = "DOWN"

\* truth value of r['response_time_ms']: None and 0 are false
HasTruthyTime(r) == r.response_time_ms # None /\ r.response_time_ms[1] # 0

UpWithTime(r) == IsUp(r) /\ HasTruthyTime(r)

RECURSIVE SumSeq(_)
SumSeq(s) == IF s = <<>> THEN 0 ELSE Head(s) + SumSeq(Tail(s))

MinSeq(s) == CHOOSE m \in {s[i] : i \in 1..Len(s)} : \A j \in 1..Len(s) : m <= s[j]
MaxSeq(s) == CHOOSE m \in {s[i] : i \in 1..Len(s)} : \A j \in 1..Len(s) : m >= s[j]

\* [r for r in results if r['status'] == 'DOWN']
DownApps(rs) == SelectSeq(rs, IsDown)

\* app.get('error', 'Unknown error')
ErrorText(r) == IF "error" \in DOMAIN r THEN r.error ELSE "Unknown error"

\* f"{(up/total)*100:.1f}" in tenths of a percent
SuccessRateTenths(up, total) == (2000 * up + total) \div (2 * total)

\* what generate_report prints and returns, for a non-empty result list
ReportOf(rs) ==
    LET total_checks == Len(rs)
        up_checks == Len(SelectSeq(rs, IsUp))
        down_checks == total_checks - up_checks
        timed == SelectSeq(rs, UpWithTime)
        up_times == [i \in 1..Len(timed) |-> timed[i].response_time_ms[1]]
        down_apps == DownApps(rs)
    IN  [ total |-> total_checks,
          up |-> up_checks,
          down |-> down_checks,
          success_rate |-> SuccessRateTenths(up_checks, total_checks),
          times |-> IF up_times # <<>>
                    THEN Some([ sum |-> SumSeq(up_times), count |-> Len(up_times),
                                min |-> MinSeq(up_times), max |-> MaxSeq(up_times) ])
                    ELSE None,
          down_list |-> [i \in 1..Len(down_apps) |->
                            [name |-> down_apps[i].name,
                             detail |-> ErrorText(down_apps[i])]],
          all_up |-> (up_checks = total_checks) ]

\* variant: the report is generated whenever no call is in progress
GenerateReportEarly ==
    /\ pc = "check"
    /\ ~inCall
    /\ IF Len(results) = 0
       THEN /\ raised' = "ZeroDivisionError"
            /\ exitCode' = Some(1)
            /\ pc' = "done"
            /\ UNCHANGED report
       ELSE /\ report' = Some(ReportOf(results))
            /\ pc' = "save"
            /\ UNCHANGED <<raised, exitCode>>
    /\ UNCHANGED <<args, config, applications, results, idx, inCall, attempt,
                   returned, log, saved, alertCalls, smtpSends, mailed>>

\* the loop of check_multiple_applications is over and generate_report runs;
\* with no result the success-rate division raises ZeroDivisionError, which
\* nothing catches: the interpreter ends the process with status 1
GenerateReport ==
    /\ pc = "check"
    /\ ~inCall
    /\ idx > Len(applications)
    /\ IF Len(results) = 0
       THEN /\ raised' = "ZeroDivisionError"
            /\ exitCode' = Some(1)
            /\ pc' = "done"
            /\ UNCHANGED report
       ELSE /\ report' = Some(ReportOf(results))
            /\ pc' = "save"
            /\ UNCHANGED <<raised, exitCode>>
    /\ UNCHANGED <<args, config, applications, results, idx, inCall, attempt,
                   returned, log, saved, alertCalls, smtpSends, mailed>>

----------------------------------------------------------------------------
(* main, after the health checks *)

\* `if args.save: checker.save_results(args.save)`
SaveResults ==
    /\ pc = "save"
    /\ saved' = IF args.save # None THEN Some(results) ELSE saved
    /\ pc' = "alert"
    /\ UNCHANGED <<args, config, applications, results, idx, inCall, attempt,
                   returned, log, report, alertCalls, smtpSends, mailed,
                   raised, exitCode>>

\* variant: the alert is sent when either condition holds
AlertOnEither ==
    /\ pc = "alert"
    /\ IF DownApps(results) # <<>> \/ args.email
       THEN /\ alertCalls' = alertCalls + 1
            /\ IF config.alert_email = None
               THEN UNCHANGED <<smtpSends, mailed>>
               ELSE \E delivered \in BOOLEAN :
                        /\ smtpSends' = smtpSends + 1
                        /\ mailed' = IF delivered THEN mailed + 1 ELSE mailed
       ELSE UNCHANGED <<alertCalls, smtpSends, mailed>>
    /\ pc' = "exit"
    /\ UNCHANGED <<args, config, applications, results, idx, inCall, attempt,
                   returned, log, report, saved, raised, exitCode>>

\* variant: an SMTP failure is not caught and ends the process
AlertSmtpErrorEscapes ==
    /\ pc = "alert"
    /\ IF DownApps(results) # <<>> /\ args.email
       THEN /\ alertCalls' = alertCalls + 1
            /\ IF config.alert_email = None
               THEN /\ pc' = "exit"
                    /\ UNCHANGED <<smtpSends, mailed, raised, exitCode>>
               ELSE \E delivered \in BOOLEAN :
                        /\ smtpSends' = smtpSends + 1
                        /\ IF delivered
                           THEN /\ mailed' = mailed + 1
                                /\ pc' = "exit"
                                /\ UNCHANGED <<raised, exitCode>>
                           ELSE /\ raised' = "SMTPException"
                                /\ exitCode' = Some(1)
                                /\ pc' = "done"
                                /\ UNCHANGED mailed
       ELSE /\ pc' = "exit"
            /\ UNCHANGED <<alertCalls, smtpSends, mailed, raised, exitCode>>
    /\ UNCHANGED <<args, config, applications, results, idx, inCall, attempt,
                   returned, log, report, saved>>

\* `if down_apps and args.email: checker.send_alert(...)`; inside send_alert the
\* SMTP exchange succeeds or raises, and the exception is caught
Alert ==
    /\ pc = "alert"
    /\ IF DownApps(results) # <<>> /\ args.email
       THEN /\ alertCalls' = alertCalls + 1
            /\ IF config.alert_email = None
               THEN UNCHANGED <<smtpSends, mailed>>
               ELSE \E delivered \in BOOLEAN :
                        /\ smtpSends' = smtpSends + 1
                        /\ mailed' = IF delivered THEN mailed + 1 ELSE mailed
       ELSE UNCHANGED <<alertCalls, smtpSends, mailed>>
    /\ pc' = "exit"
    /\ UNCHANGED <<args, config, applications, results, idx, inCall, attempt,
                   returned, log, report, saved, raised, exitCode>>

\* sys.exit(0 if not down_apps else 1)
Exit ==
    /\ pc = "exit"
    /\ exitCode' = Some(IF DownApps(results) = <<>> THEN 0 ELSE 1)
    /\ pc' = "done"
    /\ UNCHANGED <<args, config, applications, results, idx, inCall, attempt,
                   returned, log, report, saved, alertCalls, smtpSends, mailed,
                   raised>>

Next ==
    \/ LoadTargets
    \/ BeginCheck
    \/ AttemptResponse
    \/ AttemptFailure
    \/ ReturnNone
    \/ GenerateReport
    \/ SaveResults
    \/ Alert
    \/ Exit

Spec == Init /\ [][Next]_vars

----------------------------------------------------------------------------
(* The checker as an object: any sequence of method calls on one            *)
(* ApplicationHealthChecker, each call taken as a whole.                    *)

\* what one check_application call can return: None when the loop body never
\* runs, else the result of the response that ended it or of the last failure
CallOutcomes(cfg, app) ==
    IF cfg.retry_attempts <= 0
    THEN {None}
    ELSE { Some(ResponseResult(cfg, app, r.status_code, r.text, r.ms)) : r \in Responses }
         \cup { Some(ErrorResult(app, e)) : e \in RequestErrors }

\* self.results after calls that returned `outs`, in order
RECURSIVE AppendReturned(_, _)
AppendReturned(rs, outs) ==
    IF outs = <<>> THEN rs
    ELSE AppendReturned(IF Head(outs) = None THEN rs ELSE Append(rs, Head(outs)[1]),
                        Tail(outs))

\* the targets and target lists the calls are made with
ApiTargets == { [url |-> "http://a.test/health"] }

ApiTargetLists == UNION { [1..n -> ApiTargets] : n \in 0..MaxTargets }

ApiConfigChoices ==
    { None, Some(JsonFile(AlertOverride)), Some(JsonFile([retry_attempts |-> 0])) }

\* checker = ApplicationHealthChecker(config_file)
InitApi ==
    /\ args \in { Args(c, SingleUrl, None, FALSE) : c \in ApiConfigChoices }
    /\ config = load_config(args.config)
    /\ results = <<>>
    /\ pc = "constructed"
    /\ applications = <<>>
    /\ idx = 1
    /\ inCall = FALSE
    /\ attempt = 0
    /\ returned = <<>>
    /\ log = <<>>
    /\ report = None
    /\ saved = None
    /\ alertCalls = 0
    /\ smtpSends = 0
    /\ mailed = 0
    /\ raised = "none"
    /\ exitCode = None

\* checker.check_application(**app)
ApiCheckApplication ==
    /\ Len(results) < MaxResults
    /\ \E app \in ApiTargets :
        \E out \in CallOutcomes(config, app) :
            results' = AppendReturned(results, <<out>>)
    /\ pc' = "check_application"
    /\ raised' = "none"
    /\ UNCHANGED <<args, config, applications, idx, inCall, attempt, returned,
                   log, report, saved, alertCalls, smtpSends, mailed, exitCode>>

\* variant: check_multiple_applications starts from an empty result list
ApiCheckMultipleApplicationsFresh ==
    \E apps \in ApiTargetLists :
        /\ Len(results) + Len(apps) <= MaxResults
        /\ \E outs \in [1..Len(apps) -> UNION { CallOutcomes(config, a) : a \in ApiTargets }] :
            /\ \A i \in 1..Len(apps) : outs[i] \in CallOutcomes(config, apps[i])
            /\ results' = AppendReturned(<<>>, outs)
            /\ IF Len(results') = 0
               THEN raised' = "ZeroDivisionError" /\ UNCHANGED report
               ELSE raised' = "none" /\ report' = Some(ReportOf(results'))
        /\ pc' = "check_multiple_applications"
        /\ UNCHANGED <<args, config, applications, idx, inCall, attempt, returned,
                       log, saved, alertCalls, smtpSends, mailed, exitCode>>

\* checker.check_multiple_applications(apps): every target is checked in
\* order, then generate_report runs; its ZeroDivisionError reaches the caller
ApiCheckMultipleApplications ==
    \E apps \in ApiTargetLists :
        /\ Len(results) + Len(apps) <= MaxResults
        /\ \E outs \in [1..Len(apps) -> UNION { CallOutcomes(config, a) : a \in ApiTargets }] :
            /\ \A i \in 1..Len(apps) : outs[i] \in CallOutcomes(config, apps[i])
            /\ results' = AppendReturned(results, outs)
            /\ IF Len(results') = 0
               THEN raised' = "ZeroDivisionError" /\ UNCHANGED report
               ELSE raised' = "none" /\ report' = Some(ReportOf(results'))
        /\ pc' = "check_multiple_applications"
        /\ UNCHANGED <<args, config, applications, idx, inCall, attempt, returned,
                       log, saved, alertCalls, smtpSends, mailed, exitCode>>

\* variant: the report consumes the results it has listed
ApiGenerateReportConsumes ==
    /\ IF Len(results) = 0
       THEN raised' = "ZeroDivisionError" /\ UNCHANGED <<report, results>>
       ELSE /\ raised' = "none"
            /\ report' = Some(ReportOf(results))
            /\ results' = SelectSeq(results, IsUp)
    /\ pc' = IF pc \in {"generate_report", "generate_report_again"}
             THEN "generate_report_again" ELSE "generate_report"
    /\ UNCHANGED <<args, config, applications, idx, inCall, attempt,
                   returned, log, saved, alertCalls, smtpSends, mailed, exitCode>>

\* checker.generate_report(); pc tells a call that directly follows another
\* generate_report call from a first one
ApiGenerateReport ==
    /\ IF Len(results) = 0
       THEN raised' = "ZeroDivisionError" /\ UNCHANGED report
       ELSE raised' = "none" /\ report' = Some(ReportOf(results))
    /\ pc' = IF pc \in {"generate_report", "generate_report_again"}
             THEN "generate_report_again" ELSE "generate_report"
    /\ UNCHANGED <<args, config, applications, results, idx, inCall, attempt,
                   returned, log, saved, alertCalls, smtpSends, mailed, exitCode>>

\* checker.save_results(filename)
ApiSaveResults ==
    /\ saved' = Some(results)
    /\ pc' = "save_results"
    /\ raised' = "none"
    /\ UNCHANGED <<args, config, applications, results, idx, inCall, attempt,
                   returned, log, report, alertCalls, smtpSends, mailed, exitCode>>

\* checker.send_alert(subject, message)
ApiSendAlert ==
    /\ alertCalls < MaxAlertCalls
    /\ alertCalls' = alertCalls + 1
    /\ IF config.alert_email = None
       THEN UNCHANGED <<smtpSends, mailed>>
       ELSE \E delivered \in BOOLEAN :
                /\ smtpSends' = smtpSends + 1
                /\ mailed' = IF delivered THEN mailed + 1 ELSE mailed
    /\ pc' = "send_alert"
    /\ raised' = "none"
    /\ UNCHANGED <<args, config, applications, results, idx, inCall, attempt,
                   returned, log, report, saved, exitCode>>

NextApi ==
    \/ ApiCheckApplication
    \/ ApiCheckMultipleApplications
    \/ ApiGenerateReport
    \/ ApiSaveResults
    \/ ApiSendAlert

SpecApi == InitApi /\ [][NextApi]_vars

----------------------------------------------------------------------------
(* Properties *)

\* the requests of target i's call, in order
Requests(i) == LET IsRequest(ev) == ev.ev = "request" IN SelectSeq(log[i], IsRequest)

\* at least one request was made for target i and every one failed
AllFailed(i) ==
    /\ Requests(i) # <<>>
    /\ \A k \in 1..Len(Requests(i)) : Requests(i)[k].outcome = "failure"

\* some request of target i failed
SomeFailed(i) == \E k \in 1..Len(Requests(i)) : Requests(i)[k].outcome = "failure"

\* main got past target-list loading and the loop over the targets is over
ChecksOver ==
    /\ pc # "load_targets"
    /\ LoadedApplications(args) # None
    /\ ~inCall
    /\ idx > Len(applications)

\* C1: once check_multiple_applications has processed the target list, the
\* result sequence has exactly one result per submitted target, and the i-th
\* result carries the url and name of the i-th target.
C1_OneResultPerTarget ==
    ChecksOver =>
        /\ Len(results) = Len(applications)
        /\ \A i \in 1..Len(results) :
              /\ results[i].url = applications[i].url
              /\ results[i].name = NameOf(applications[i])

\* C2: every UP result has a status code that is present and expected, and
\* its has_critical_keywords flag is false.
C2_UpImpliesExpectedAndNotCritical ==
    \A i \in 1..Len(results) :
        results[i].status = "UP" =>
            /\ results[i].status_code # None
            /\ InList(results[i].status_code[1], config.expected_status_codes)
            /\ "content_analysis" \in DOMAIN results[i]
            /\ results[i].content_analysis.has_critical_keywords = FALSE

C2_Witness ==
    \E i \in 1..Len(results) :
        /\ results[i].status = "UP"
        /\ \E j \in 1..Len(results) :
              /\ results[j].status = "DOWN"
              /\ results[j].status_code = Some(200)

\* C3: a call whose every attempt ends in a transport failure never issues
\* more than retry_attempts requests, and when it has returned it has issued
\* exactly retry_attempts requests and returned a DOWN result with error set
\* and the status code absent.
C3_ExactlyRetryAttemptsRequests ==
    \A i \in DOMAIN log :
        AllFailed(i) =>
            /\ Len(Requests(i)) <= config.retry_attempts
            /\ i <= Len(returned) =>
                  /\ Len(Requests(i)) = config.retry_attempts
                  /\ returned[i] # None
                  /\ returned[i][1].status = "DOWN"
                  /\ "error" \in DOMAIN returned[i][1]
                  /\ returned[i][1].status_code = None

C3_Witness ==
    \E i \in DOMAIN log :
        /\ AllFailed(i)
        /\ i <= Len(returned)
        /\ Len(Requests(i)) = DefaultRetryAttempts
        /\ results[i].status = "DOWN"

\* C4: check_application never raises: no exception escapes while targets are
\* being checked, every returned call in which a request failed returned a
\* result (DOWN when all its requests failed), and after a failing target the
\* remaining targets are still checked.
C4_NeverRaises ==
    /\ raised # "none" => (raised = "ZeroDivisionError" /\ ChecksOver)
    /\ \A i \in 1..Len(returned) :
          SomeFailed(i) =>
              /\ returned[i] # None
              /\ AllFailed(i) => returned[i][1].status = "DOWN"
    /\ (pc \in {"save", "alert", "exit"}) => Len(returned) = Len(applications)
    /\ (pc = "done" /\ LoadedApplications(args) # None) =>
          Len(returned) = Len(applications)

C4_Witness ==
    \E i \in 1..Len(returned) :
        /\ AllFailed(i)
        /\ returned[i] # None
        /\ \E j \in 1..Len(returned) : j > i /\ returned[j] # None

\* C5: a received response ends the call at once: a response is always the
\* last request of its target, nothing (no sleep, no request) follows it, the
\* call has returned the result built from it, and every request that is
\* followed by another one failed.
C5_ResponseEndsTheCall ==
    \A i \in DOMAIN log :
        \A k \in 1..Len(Requests(i)) :
            /\ k < Len(Requests(i)) => Requests(i)[k].outcome = "failure"
            /\ Requests(i)[k].outcome = "response" =>
                  /\ k = Len(Requests(i))
                  /\ log[i][Len(log[i])] = Requests(i)[k]
                  /\ i <= Len(returned)
                  /\ returned[i] # None
                  /\ returned[i][1].status_code = Some(Requests(i)[k].response.status_code)
                  /\ returned[i][1].response_time_ms = Some(Requests(i)[k].response.ms)
                  /\ "content_analysis" \in DOMAIN returned[i][1]

C5_Witness ==
    \E i \in 1..Len(returned) :
        /\ Len(Requests(i)) = 1
        /\ Requests(i)[1].outcome = "response"
        /\ config.retry_attempts > 1
        /\ returned[i] # None
        /\ returned[i][1].status = "DOWN"

\* the request that ended target i's call
LastRequest(i) == Requests(i)[Len(Requests(i))]

\* C6: no result has both error and content_analysis; a result has error
\* exactly when its call ended on a transport failure (status code and
\* response time are then absent) and content_analysis exactly when its call
\* ended on a received response.
C6_ErrorXorContentAnalysis ==
    \A i \in 1..Len(results) :
        LET r == results[i] IN
        /\ ~("error" \in DOMAIN r /\ "content_analysis" \in DOMAIN r)
        /\ r.url = applications[i].url
        /\ "error" \in DOMAIN r <=> LastRequest(i).outcome = "failure"
        /\ "content_analysis" \in DOMAIN r <=> LastRequest(i).outcome = "response"
        /\ "error" \in DOMAIN r => (r.status_code = None /\ r.response_time_ms = None)
        /\ "content_analysis" \in DOMAIN r =>
              (r.status_code # None /\ r.response_time_ms # None)

C6_Witness ==
    \E i, j \in 1..Len(results) :
        /\ "error" \in DOMAIN results[i]
        /\ "content_analysis" \in DOMAIN results[j]
        /\ results[j].status = "DOWN"

\* C7: a received response is UP exactly when its status code is expected and
\* no critical keyword was found, DOWN otherwise; responses that agree on
\* status code and has_critical_keywords get the same verdict whatever their
\* has_success_keywords flag.
C7_VerdictIgnoresSuccessKeyword ==
    \A i \in 1..Len(results) :
        "content_analysis" \in DOMAIN results[i] =>
            /\ results[i].status \in {"UP", "DOWN"}
            /\ results[i].status = "UP" <=>
                  /\ InList(results[i].status_code[1], config.expected_status_codes)
                  /\ ~results[i].content_analysis.has_critical_keywords
            /\ \A j \in 1..Len(results) :
                  ( /\ "content_analysis" \in DOMAIN results[j]
                    /\ results[j].status_code = results[i].status_code
                    /\ results[j].content_analysis.has_critical_keywords
                         = results[i].content_analysis.has_critical_keywords )
                  => results[j].status = results[i].status

C7_Witness ==
    \E i, j \in 1..Len(results) :
        /\ "content_analysis" \in DOMAIN results[i]
        /\ "content_analysis" \in DOMAIN results[j]
        /\ results[i].status_code = results[j].status_code
        /\ results[i].content_analysis.has_critical_keywords
             = results[j].content_analysis.has_critical_keywords
        /\ results[i].content_analysis.has_success_keywords
        /\ ~results[j].content_analysis.has_success_keywords
        /\ results[i].status = "UP"

\* some keyword occurs in the text when letter case is ignored on both sides
MatchesIgnoringCase(keywords, text) ==
    \E k \in 1..Len(keywords) : Contains(Lower(keywords[k]), Lower(text))

\* C8: keyword matching is case-insensitive: the has_critical_keywords and
\* has_success_keywords flags of a result are true exactly when a configured
\* keyword occurs in the response body with the letter case of both ignored.
C8_KeywordMatchIgnoresCase ==
    \A i \in 1..Len(results) :
        "content_analysis" \in DOMAIN results[i] =>
            LET text == LastRequest(i).response.text IN
            /\ results[i].content_analysis.has_critical_keywords
                 = MatchesIgnoringCase(config.critical_keywords, text)
            /\ results[i].content_analysis.has_success_keywords
                 = MatchesIgnoringCase(config.success_keywords, text)

\* C9: a run of main that got past target-list loading ends with exit status
\* 0 when no result is DOWN and 1 when some result is DOWN.
C9_ExitStatusFollowsDownCount ==
    (pc = "done" /\ LoadedApplications(args) # None) =>
        exitCode = Some(IF \E i \in 1..Len(results) : results[i].status = "DOWN"
                        THEN 1 ELSE 0)

\* the --file is the source of the targets and cannot be loaded
TargetFileUnusable ==
    /\ args.url = None
    /\ args.file # None
    /\ args.file[1].kind \in {"missing", "invalid"}

ConfigFileUnusable ==
    /\ args.config # None
    /\ args.config[1].kind \in {"missing", "invalid"}

C12_AlertOnlyWhenDownAndOptedIn ==
    (alertCalls > 0 \/ smtpSends > 0 \/ mailed > 0) =>
        /\ \E i \in 1..Len(results) : results[i].status = "DOWN"
        /\ args.email
        /\ pc \in {"exit", "done"}

C12_Witness ==
    /\ smtpSends = 1
    /\ mailed = 1
    /\ \E i \in 1..Len(results) : results[i].status = "UP"

\* the results are what the calls returned, in call order
ResultsAreTheReturnedOnes ==
    /\ Len(results) = Len(returned)
    /\ \A i \in 1..Len(results) : returned[i] = Some(results[i])

\* C13: a failure to send the notification is swallowed: once a message was
\* handed to SMTP, delivered or not, no exception ends the run, the result
\* sequence and the report are what they were before the alert, and the
\* exit status is 1 because a result is DOWN.
C13_AlertFailureSwallowed ==
    smtpSends > 0 =>
        /\ raised = "none"
        /\ pc \in {"exit", "done"}
        /\ ResultsAreTheReturnedOnes
        /\ report = Some(ReportOf(results))
        /\ pc = "done" =>
              exitCode = Some(IF \E i \in 1..Len(results) : results[i].status = "DOWN"
                              THEN 1 ELSE 0)

C13_Witness ==
    /\ smtpSends = 1
    /\ mailed = 0
    /\ pc = "done"
    /\ exitCode = Some(1)

\* C14: the run is sequential: a target's first request comes only after the
\* calls (and results) of all earlier targets, at most one call is in
\* progress, the report exists only once every target has its result, the
\* result sink and the notifier run only after the report, and once the exit
\* status is set nothing more happens.
C14_StrictlySequential ==
    /\ \A i \in DOMAIN log :
          log[i] # <<>> =>
              /\ Len(returned) >= i - 1
              /\ Len(results) >= i - 1
              /\ i > Len(returned) => (i = idx /\ inCall)
    /\ report # None =>
          /\ ChecksOver
          /\ Len(results) = Len(applications)
          /\ report[1].total = Len(applications)
    /\ (saved # None \/ alertCalls > 0 \/ smtpSends > 0) => report # None
    /\ saved # None => saved = Some(results)
    /\ exitCode # None => (pc = "done" /\ ~ENABLED Next)

C14_Witness ==
    /\ pc = "done"
    /\ exitCode = Some(1)
    /\ saved # None
    /\ smtpSends = 1
    /\ Len(results) = 3

\* C15: main never invokes generate_report on an empty result sequence, that
\* is, the division by zero of the success rate never happens.
C15_ReportNeverOnEmptyResults ==
    raised # "ZeroDivisionError"

\* positions of the UP results whose response time is present
UpWithPresentTime ==
    { i \in 1..Len(results) :
        results[i].status = "UP" /\ results[i].response_time_ms # None }

\* C17: the response-time statistics of the report cover exactly the UP
\* results whose response time is present, a time of 0 included, and are
\* skipped only when there is no such result.
C17_TimesCoverEveryPresentTime ==
    report # None =>
        /\ report[1].times = None <=> UpWithPresentTime = {}
        /\ report[1].times # None =>
              /\ report[1].times[1].count = Cardinality(UpWithPresentTime)
              /\ \A i \in UpWithPresentTime :
                    /\ report[1].times[1].min <= results[i].response_time_ms[1]
                    /\ report[1].times[1].max >= results[i].response_time_ms[1]

\* the sleeps of target i's call
Sleeps(i) == LET IsSleep(ev) == ev.ev = "sleep" IN SelectSeq(log[i], IsSleep)

\* C18: when a call has returned, its sleeps number one less than its
\* requests, every sleep stands between two requests of the call, the first
\* of which failed, and nothing follows a received response.
C18_SleepsBetweenRequests ==
    \A i \in 1..Len(returned) :
        /\ Len(Sleeps(i)) = Len(Requests(i)) - 1
        /\ \A k \in 1..Len(log[i]) :
              log[i][k].ev = "sleep" =>
                  /\ k > 1
                  /\ k < Len(log[i])
                  /\ log[i][k - 1].ev = "request"
                  /\ log[i][k - 1].outcome = "failure"
                  /\ log[i][k + 1].ev = "request"
                  /\ log[i][k].secs = config.retry_delay

\* C18 restricted to the calls that issued a request
C18_HoldsWhenRequestsWereIssued ==
    \A i \in 1..Len(returned) :
        Requests(i) # <<>> =>
            /\ Len(Sleeps(i)) = Len(Requests(i)) - 1
            /\ \A k \in 1..Len(log[i]) :
                  log[i][k].ev = "sleep" =>
                      /\ k > 1
                      /\ k < Len(log[i])
                      /\ log[i][k - 1].ev = "request"
                      /\ log[i][k - 1].outcome = "failure"
                      /\ log[i][k + 1].ev = "request"

\* C20: with retry_attempts <= 0 a call issues no request, appends no result
\* and returns None, so no target reaches the result sequence, no report is
\* produced and the exit statement of main is never reached: the run ends in
\* generate_report's division by zero.
C20_NoAttemptsNoResult ==
    config.retry_attempts <= 0 =>
        /\ results = <<>>
        /\ \A i \in DOMAIN log : log[i] = <<>>
        /\ \A i \in 1..Len(returned) : returned[i] = None
        /\ report = None
        /\ saved = None
        /\ alertCalls = 0
        /\ pc \in {"load_targets", "check", "done"}
        /\ (pc = "done" /\ LoadedApplications(args) # None) =>
              (raised = "ZeroDivisionError" /\ exitCode = Some(1))

C20_Witness ==
    /\ config.retry_attempts <= 0
    /\ Len(applications) = 3
    /\ Len(returned) = 3
    /\ pc = "done"

\* the last call on the checker produced a report of the current results
ReportIsFresh ==
    /\ pc \in {"generate_report", "generate_report_again", "check_multiple_applications"}
    /\ raised = "none"
    /\ report # None

UpPositions == { i \in 1..Len(results) : results[i].status = "UP" }

\* what a fresh report must say about the current results
ReportMatchesResults ==
    ReportIsFresh =>
        /\ report[1].total = Len(results)
        /\ report[1].up = Cardinality(UpPositions)
        /\ report[1].down = Len(results) - Cardinality(UpPositions)
        /\ report[1].all_up <=> (report[1].up = report[1].total)
        /\ report[1].all_up <=> (\A i \in 1..Len(results) : results[i].status = "UP")
        /\ Len(report[1].down_list) = report[1].down
        /\ 10 * report[1].success_rate * report[1].total
             <= 10000 * report[1].up + 5 * report[1].total
        /\ 10 * report[1].success_rate * report[1].total
             >= 10000 * report[1].up - 5 * report[1].total

\* a generate_report call leaves the results alone, and one that directly
\* follows another generate_report call yields the same report
ReportCallIsReadOnly ==
    (pc' \in {"generate_report", "generate_report_again"} /\ pc' # pc) =>
        results' = results

ReportCallRepeats ==
    (pc' = "generate_report_again") =>
        /\ results' = results
        /\ report' = report
        /\ raised' = raised

\* C16: generate_report is read-only and idempotent: it never changes the
\* result sequence, a second call on the same sequence yields the same report
\* (totals, counts, success rate, times, DOWN listing, return value), and the
\* return value is true exactly when up equals total.
C16_ReportIdempotentReadOnly ==
    /\ []ReportMatchesResults
    /\ [][ReportCallIsReadOnly /\ ReportCallRepeats]_vars

C16_Witness ==
    /\ pc = "generate_report_again"
    /\ report # None
    /\ report[1].up = 1
    /\ report[1].down = 1
    /\ ~report[1].all_up

\* C19: the result sequence is append-only: a call never removes, moves or
\* changes a result already in it, only check_application (directly or through
\* check_multiple_applications) lengthens it, and a report made after later
\* calls counts the results of the earlier calls too.
C19_ResultsAppendOnly ==
    /\ [][ /\ Len(results') >= Len(results)
           /\ SubSeq(results', 1, Len(results)) = results
           /\ results' # results =>
                 pc' \in {"check_application", "check_multiple_applications"}
         ]_vars
    /\ [](ReportIsFresh => report[1].total = Len(results))

C19_Witness ==
    /\ pc = "check_multiple_applications"
    /\ saved # None
    /\ Len(saved[1]) = 1
    /\ Len(results) = 2
    /\ report # None
    /\ report[1].total = 2

====
